---- MODULE Spec2Model ----
(***************************************************************************)
(* Model of the permission-operation and rollback subsystem of             *)
(* permission_bot.py: PermissionManager (the four write flows, rollback)   *)
(* driven by the interactive menu of DiscordPermissionBot.                 *)
(*                                                                         *)
(* The menu coroutine is the single thread of control.  Every              *)
(* `await channel.edit(...)` is a suspension point: the write is in flight *)
(* (cur.write) until the platform accepts or rejects it.  import_config    *)
(* does not await its writes: it hands them to asyncio.create_task, so     *)
(* they sit in `pending` and are driven by the event loop only while the   *)
(* menu coroutine is suspended in an awaited write.                        *)
(*                                                                         *)
(* live[c] is channel c's overwrite map (channel.overwrites); an accepted  *)
(* channel.edit(overwrites=m) replaces it by m.                            *)
(*                                                                         *)
(* main starts the client and the menu together; `client` is the           *)
(* PermissionManager's self.client, None until on_ready stores the bot.    *)
(*                                                                         *)
(* Specifications:                                                         *)
(*   Spec        the bot driven through its menu;                          *)
(*   CallersSpec Spec, plus a script that calls export_config and          *)
(*               import_config directly, outside any event loop, as        *)
(*               test_bot.py does;                                         *)
(*   MergeSpec   the overwrite editor (_set_permissions) on its own;       *)
(*   SelectSpec  select_permissions_interactive on its own.                *)
(***************************************************************************)
EXTENDS Integers, Sequences, FiniteSets, TLC

(* ----------------------------- bounds ---------------------------------- *)

\* Number of menu flows (write flows, rollbacks) started in one run.
MaxOps == 3

\* Number of flags one requested map sets, when the editor is run on its own.
MaxFlags == 2

(* ------------------------- the guild universe -------------------------- *)

\* Role ids of the guild, in guild.roles order.
guild_roles == <<10, 20>>

\* Channel ids of the guild, in guild.channels order.
guild_channels == <<1, 2>>

Roles == {guild_roles[i] : i \in 1..Len(guild_roles)}

Channels == {guild_channels[i] : i \in 1..Len(guild_channels)}

\* Role names (role.name), as character sequences.
RoleName(r) == IF r = 10 THEN <<"M", "o", "d">> ELSE <<"A", "d", "m", "i", "n">>

\* The channel-name layouts a guild may have (channel.name); names need not
\* be unique on the platform.
ChannelLayouts ==
    { [c \in Channels |-> IF c = 1 THEN <<"g", "e", "n">> ELSE <<"M", "o", "d", "s">>],
      [c \in Channels |-> <<"g", "e", "n">>] }

\* The permission flags a discord.PermissionOverwrite has (three of them); a
\* record holds one state per flag.
VALID_NAMES == {"view_channel", "send_messages", "use_voice_activation"}

\* The permission catalog self.permissions (three of its names).  The library
\* names the voice-activity flag use_voice_activation: the catalog lists it as
\* 'use_vad', which is no attribute of a PermissionOverwrite.
permissions == {"view_channel", "send_messages", "use_vad"}

\* discord.PermissionOverwrite(): every flag None (inherit).
PermissionOverwrite == [n \in VALID_NAMES |-> "Inherit"]

(* ----------------------------- strings --------------------------------- *)

\* str.lower() on one character.
LowerChar(ch) ==
    CASE ch = "A" -> "a"
      [] ch = "C" -> "c"
      [] ch = "D" -> "d"
      [] ch = "E" -> "e"
      [] ch = "G" -> "g"
      [] ch = "L" -> "l"
      [] ch = "M" -> "m"
      [] ch = "N" -> "n"
      [] ch = "O" -> "o"
      [] ch = "S" -> "s"
      [] ch = "V" -> "v"
      [] OTHER -> ch

\* str.lower()
Lower(s) == [i \in 1..Len(s) |-> LowerChar(s[i])]

\* Python's `p in s` on strings: p occurs in s as a contiguous substring.
IsIn(p, s) ==
    \E k \in 0..(Len(s) - Len(p)) : \A j \in 1..Len(p) : s[k + j] = p[j]

(* ------------------------ the permission editor ------------------------ *)

\* hasattr(overwrite, perm_name): true of the flags and of every other
\* attribute of the object, such as __class__; false of anything else.
hasattr(perm_name) == perm_name \in VALID_NAMES \cup {"__class__"}

\* setattr(overwrite, perm_name, value) raises: __class__ takes a class only.
SetattrRaises(perm_name) == perm_name = "__class__"

\* The loop `for perm_name, value in permissions_dict.items():
\*              if hasattr(overwrite, perm_name): setattr(overwrite, perm_name, value)`
\* raises.
MergeRaises(permissions_dict) ==
    \E perm_name \in DOMAIN permissions_dict :
        hasattr(perm_name) /\ SetattrRaises(perm_name)

\* Variant: the loop runs on a fresh record, not on the role's current one.
SetPermissionsFresh(overwrite, permissions_dict) ==
    [n \in VALID_NAMES |->
        IF n \in DOMAIN permissions_dict /\ hasattr(n)
        THEN (IF permissions_dict[n] THEN "Allow" ELSE "Deny")
        ELSE "Inherit"]

\* The same loop, when it does not raise.
SetPermissions(overwrite, permissions_dict) ==
    [n \in VALID_NAMES |->
        IF n \in DOMAIN permissions_dict /\ hasattr(n)
        THEN (IF permissions_dict[n] THEN "Allow" ELSE "Deny")
        ELSE overwrite[n]]

\* new_overwrites of one loop iteration: a copy of the channel's map with the
\* role's record merged with the requested flags.
NewOverwrites(overwrites, role, permissions_dict) ==
    LET overwrite == IF role \in DOMAIN overwrites
                     THEN overwrites[role]
                     ELSE PermissionOverwrite
    IN  [r \in (DOMAIN overwrites) \cup {role} |->
            IF r = role
            THEN SetPermissions(overwrite, permissions_dict)
            ELSE overwrites[r]]

(* ------------------------------ state ---------------------------------- *)

VARIABLES
    guild,           \* self.guild: "None" until a server is selected
    channel_name,    \* channel.name of every channel of the guild
    live,            \* channel.overwrites of every channel
    last_operation,  \* self.last_operation (the depth-1 operation log)
    pending,         \* writes handed to asyncio.create_task, not yet completed
    pc,              \* where the menu coroutine is
    cur,             \* locals of the flow the menu coroutine is running
    results,         \* result map the last call returned (empty when it returns none)
    console,         \* last diagnostic printed by the PermissionManager
    nops,            \* flows started so far
    done,            \* history: how the last finished flow ended
    prev,            \* history: how the flow before it ended
    pre,             \* history: live, as it was when the last batch flow started
    touched,         \* history: channels the last batch flow targeted
    attempts,        \* history: the writes the last flow awaited, with outcome
    patterns,        \* history: the substrings, when the last call was a Pattern Match
    unrecorded,      \* history: pending writes of an import that recorded no operation
    orphan,          \* history: such a write was applied
    exported,        \* the file export_config writes: an error to open it, or its content
    imported,        \* history: the file name of the last import_config call
    rejected,        \* history: a write left to create_task was rejected since that call
    confirm,         \* the answer to the Confirm.ask of the flow last chosen ("none": it asked nothing)
    clean,           \* history: every write the flow before the last one awaited was accepted
    client           \* self.client of the PermissionManager: "None" until on_ready stores the bot

vars == <<guild, channel_name, live, last_operation, pending, pc, cur, results,
          console, nops, done, prev, pre, touched, attempts, patterns, unrecorded,
          orphan, exported, imported, rejected, confirm, clean, client>>

\* self.last_operation = None
NoOperation == [type |-> "none"]

\* The menu coroutine runs no flow.
Idle == [type |-> "none"]

Range(s) == {s[i] : i \in 1..Len(s)}

\* d[k] = v on a Python dict
Put(d, k, v) == [x \in (DOMAIN d) \cup {k} |-> IF x = k THEN v ELSE d[x]]

\* The empty dict {}
EmptyDict == << >>

(* ------------------------------ inputs --------------------------------- *)

\* Overwrite maps the guild's channels may start with: channel 1 has a record
\* for role 20 with no flag set, channel 2 has no record for role 20.
InitialOverwrites ==
    { [c \in Channels |->
          IF c = 1
          THEN (10 :> [view_channel |-> "Allow", send_messages |-> "Inherit",
                       use_voice_activation |-> "Inherit"])
               @@ (20 :> [view_channel |-> "Inherit", send_messages |-> "Inherit",
                          use_voice_activation |-> "Inherit"])
          ELSE (10 :> [view_channel |-> "Deny", send_messages |-> "Allow",
                       use_voice_activation |-> "Deny"])] }

\* Channel lists the user may select for Role->Channels.
ChannelSelections == { <<2>>, <<1, 2>> }

\* Flag maps the user may request: the names are picked from the catalog.
PermissionDicts ==
    { ("send_messages" :> FALSE) @@ ("use_vad" :> TRUE),
      ("view_channel" :> FALSE) @@ ("send_messages" :> TRUE) }

(* ------------------------------- Init ---------------------------------- *)

\* The PermissionManager after construction, and the guild it will manage.
Constructed ==
    /\ guild = "None"
    /\ client = "None"
    /\ channel_name \in ChannelLayouts
    /\ live \in InitialOverwrites
    /\ last_operation = NoOperation
    /\ pending = {}
    /\ results = EmptyDict
    /\ console = ""
    /\ nops = 0
    /\ done = "init"
    /\ prev = "init"
    /\ pre = live
    /\ touched = {}
    /\ attempts = << >>
    /\ patterns = << >>
    /\ unrecorded = {}
    /\ orphan = FALSE
    /\ exported = [error |-> "FileNotFoundError"]
    /\ imported = ""
    /\ rejected = FALSE
    /\ confirm = "none"
    /\ clean = TRUE

\* main(): the menu coroutine shows the main menu.
Init ==
    /\ Constructed
    /\ pc = "menu"
    /\ cur = Idle

\* Every write the flow that is over awaited was accepted.
AllAccepted == \A i \in 1..Len(attempts) : attempts[i].ok

\* A flow that runs to its end in one step, ending as `how`.
Ends(how) == /\ nops' = nops + 1
             /\ prev' = done
             /\ done' = how

\* A flow starts and suspends in its first awaited write.
Starts == /\ nops' = nops + 1
          /\ UNCHANGED <<done, prev>>

\* A suspended flow resumes and runs to its end, ending as `how`.
Finishes(how) == /\ prev' = done
                 /\ done' = how
                 /\ UNCHANGED nops

(* --------------------------- select_server ----------------------------- *)

\* self.client is still the None of the constructor.
ClientUnset == client = "None"

\* Main-menu choice 1.  select_server reads self.client.guilds first: on a
\* client that is still None the attribute access raises AttributeError, which
\* leaves the menu, asyncio.gather and main, and is printed by the handler of
\* the entry point.
select_server ==
    /\ pc = "menu"
    /\ UNCHANGED <<exported, imported, rejected, confirm, clean, client>>
    /\ guild = "None"
    /\ IF ClientUnset
       THEN /\ pc' = "raised"
            /\ console' = "Error"
            /\ UNCHANGED guild
       ELSE /\ guild' = "guild"
            /\ console' = "Selected server"
            /\ UNCHANGED pc
    /\ UNCHANGED <<channel_name, live, last_operation, pending, cur, results,
                   nops, done, prev, pre, touched, attempts, patterns, unrecorded,
                   orphan>>

(* ------------------------------ on_ready ------------------------------- *)

\* The library calls on_ready once the platform reports the session ready;
\* the handler prints a line and stores the bot in the PermissionManager
\* (set_client).  When that happens relative to the menu's prompts is left
\* open.
on_ready ==
    /\ pc \in {"menu", "bulk", "pattern", "copy", "rollback"}
    /\ client = "None"
    /\ client' = "bot"
    /\ console' = "Bot is ready!"
    /\ UNCHANGED <<guild, channel_name, live, last_operation, pending, pc, cur,
                   results, nops, done, prev, pre, touched, attempts, patterns,
                   unrecorded, orphan, exported, imported, rejected, confirm, clean>>

\* Main-menu choice 2, 3 or 4 while no guild is selected: the menu prints
\* "Please select a server first!" and shows itself again.
refuses ==
    /\ pc = "menu"
    /\ UNCHANGED client
    /\ guild = "None"
    /\ console' = "Please select a server first!"
    /\ UNCHANGED <<guild, channel_name, live, last_operation, pending, pc, cur,
                   results, nops, done, prev, pre, touched, attempts, patterns,
                   unrecorded, orphan, exported, imported, rejected, confirm, clean>>

(* ------------------------ the confirmation prompt ---------------------- *)

\* The user answers no to the `Confirm.ask` that ends the preview of
\* bulk_role_to_channel_mode, pattern_matching_mode or copy_permissions_mode:
\* the mode returns to the menu without calling the PermissionManager.
declines ==
    /\ pc = "menu"
    /\ UNCHANGED client
    /\ guild # "None"
    /\ nops < MaxOps
    /\ confirm' = "no"
    /\ Ends("declined")
    /\ UNCHANGED <<guild, channel_name, live, last_operation, pending, pc, cur,
                   results, console, pre, touched, attempts, patterns, unrecorded,
                   orphan, exported, imported, rejected, clean>>

(* ------------------- bulk_role_to_channel_permissions ------------------ *)

\* The write of loop iteration i of Role->Channels, computed from the
\* channel's map as it is when the iteration starts (copied).
BulkWrite(overwrites, role, channel, permissions_dict) ==
    [channel |-> channel,
     copied |-> overwrites[channel],
     overwrites |-> NewOverwrites(overwrites[channel], role, permissions_dict)]

\* original_overwrites: one entry per listed channel, captured before the loop.
CaptureOriginal(channels, overwrites) ==
    [c \in Range(channels) |-> overwrites[c]]

\* The call, up to the first `await channel.edit`.
bulk_role_to_channel_permissions(role, channels, permissions_dict) ==
    /\ pc = "menu"
    /\ UNCHANGED client
    /\ UNCHANGED <<exported, imported, rejected>>
    /\ confirm' = "yes"
    /\ clean' = AllAccepted
    /\ guild # "None"
    /\ nops < MaxOps
    /\ cur' = [type |-> "bulk_role_to_channel",
               role |-> role,
               channels |-> channels,
               permissions_dict |-> permissions_dict,
               original_overwrites |-> CaptureOriginal(channels, live),
               i |-> 1,
               results |-> EmptyDict,
               write |-> BulkWrite(live, role, channels[1], permissions_dict)]
    /\ pc' = "bulk"
    /\ pre' = live
    /\ touched' = Range(channels)
    /\ attempts' = << >>
    /\ patterns' = << >>
    /\ results' = EmptyDict
    /\ Starts
    /\ UNCHANGED <<guild, channel_name, live, last_operation, pending, console,
                   unrecorded, orphan>>

\* Variant: the pre-image is read from the channels when the operation is
\* recorded, after the loop.
BulkOperationCapturedLate(c) ==
    [type |-> "bulk_role_to_channel",
     role |-> c.role,
     channels |-> c.channels,
     original_overwrites |-> [ch \in Range(c.channels) |-> live[ch]],
     new_permissions |-> c.permissions_dict]

\* The operation Role->Channels records when its loop is over.
BulkOperation(c) ==
    [type |-> "bulk_role_to_channel",
     role |-> c.role,
     channels |-> c.channels,
     original_overwrites |-> c.original_overwrites,
     new_permissions |-> c.permissions_dict]

\* Status string stored for one target.
Status(ok) == IF ok THEN "Success" ELSE "Failed"

\* The awaited channel.edit returns (ok) or raises DiscordException (~ok); the
\* coroutine runs on to the next await or to the return.
bulk_resume(ok) ==
    /\ pc = "bulk"
    /\ UNCHANGED client
    /\ UNCHANGED <<exported, imported, rejected, confirm, clean>>
    /\ LET w == cur.write
           live1 == IF ok THEN [live EXCEPT ![w.channel] = w.overwrites] ELSE live
           results1 == Put(cur.results, channel_name[w.channel], Status(ok))
       IN  /\ live' = live1
           /\ attempts' = Append(attempts,
                                 [role |-> cur.role, channel |-> w.channel, ok |-> ok])
           /\ IF cur.i < Len(cur.channels)
              THEN /\ cur' = [cur EXCEPT
                                !.i = @ + 1,
                                !.results = results1,
                                !.write = BulkWrite(live1, cur.role,
                                                    cur.channels[cur.i + 1],
                                                    cur.permissions_dict)]
                   /\ UNCHANGED <<pc, last_operation, results, done, prev>>
              ELSE /\ last_operation' = BulkOperation(cur)
                   /\ results' = results1
                   /\ cur' = Idle
                   /\ pc' = "menu"
                   /\ Finishes("bulk")
    /\ UNCHANGED <<guild, channel_name, pending, console, nops, pre, touched,
                   patterns, unrecorded, orphan>>

(* ---------------------- pattern_match_permissions ---------------------- *)

\* The substrings the user may enter for roles and for channels.
RolePatterns == { <<"D">>, <<"x">> }

ChannelPatterns == { <<"G", "e", "n">>, <<"x">> }

\* [r for r in self.guild.roles if role_pattern.lower() in r.name.lower()]
MatchingRoles(role_pattern) ==
    LET Matches(r) == IsIn(Lower(role_pattern), Lower(RoleName(r)))
    IN  SelectSeq(guild_roles, Matches)

\* [c for c in self.guild.channels if channel_pattern.lower() in c.name.lower()]
MatchingChannels(channel_pattern, names) ==
    LET Matches(c) == IsIn(Lower(channel_pattern), Lower(names[c]))
    IN  SelectSeq(guild_channels, Matches)

\* The (role, channel) pairs in the order of the nested loops.
Pairs(roles, channels) ==
    [k \in 1..(Len(roles) * Len(channels)) |->
        [role |-> roles[((k - 1) \div Len(channels)) + 1],
         channel |-> channels[((k - 1) % Len(channels)) + 1]]]

\* f"{role.name} -> {channel.name}"
PairKey(role, channel, names) ==
    RoleName(role) \o <<" ", "-", ">", " ">> \o names[channel]

\* Variant: the early return for channels is missing.
PatternAbortsRolesOnly(role_pattern, channel_pattern, names) ==
    MatchingRoles(role_pattern) = << >>

\* Variant: the early return for roles is missing.
PatternAbortsChannelsOnly(role_pattern, channel_pattern, names) ==
    MatchingChannels(channel_pattern, names) = << >>

\* The early returns: no role matches, or no channel matches.
PatternAborts(role_pattern, channel_pattern, names) ==
    \/ MatchingRoles(role_pattern) = << >>
    \/ MatchingChannels(channel_pattern, names) = << >>

\* The call, up to the first `await channel.edit` (or to an early return).
pattern_match_permissions(role_pattern, channel_pattern, permissions_dict) ==
    /\ pc = "menu"
    /\ UNCHANGED client
    /\ UNCHANGED <<exported, imported, rejected>>
    /\ confirm' = "yes"
    /\ clean' = AllAccepted
    /\ guild # "None"
    /\ nops < MaxOps
    /\ patterns' = <<role_pattern, channel_pattern>>
    /\ pre' = live
    /\ attempts' = << >>
    /\ LET matching_roles == MatchingRoles(role_pattern)
           matching_channels == MatchingChannels(channel_pattern, channel_name)
           pairs == Pairs(matching_roles, matching_channels)
       IN  IF PatternAborts(role_pattern, channel_pattern, channel_name)
           THEN /\ console' = IF matching_roles = << >>
                              THEN "No roles match pattern"
                              ELSE "No channels match pattern"
                /\ touched' = {}
                /\ Ends(IF matching_roles = << >>
                        THEN "pattern_no_roles"
                        ELSE "pattern_no_channels")
                /\ UNCHANGED <<pc, cur, last_operation>>
           ELSE IF pairs = << >>
           THEN \* both loops run zero times; the operation is recorded
                /\ last_operation' =
                       [type |-> "pattern_match",
                        role_pattern |-> role_pattern,
                        channel_pattern |-> channel_pattern,
                        matching_roles |-> matching_roles,
                        matching_channels |-> matching_channels,
                        original_overwrites |->
                            CaptureOriginal(matching_channels, live),
                        new_permissions |-> permissions_dict]
                /\ touched' = Range(matching_channels)
                /\ Ends("pattern")
                /\ UNCHANGED <<pc, cur, console>>
           ELSE /\ cur' = [type |-> "pattern_match",
                           role_pattern |-> role_pattern,
                           channel_pattern |-> channel_pattern,
                           matching_roles |-> matching_roles,
                           matching_channels |-> matching_channels,
                           permissions_dict |-> permissions_dict,
                           original_overwrites |->
                               CaptureOriginal(matching_channels, live),
                           pairs |-> pairs,
                           i |-> 1,
                           results |-> EmptyDict,
                           write |-> BulkWrite(live, pairs[1].role, pairs[1].channel,
                                               permissions_dict)]
                /\ pc' = "pattern"
                /\ touched' = Range(matching_channels)
                /\ Starts
                /\ UNCHANGED <<console, last_operation>>
    /\ results' = EmptyDict
    /\ UNCHANGED <<guild, channel_name, live, pending, unrecorded, orphan>>

\* The operation Pattern Match records when its loops are over.
PatternOperation(c) ==
    [type |-> "pattern_match",
     role_pattern |-> c.role_pattern,
     channel_pattern |-> c.channel_pattern,
     matching_roles |-> c.matching_roles,
     matching_channels |-> c.matching_channels,
     original_overwrites |-> c.original_overwrites,
     new_permissions |-> c.permissions_dict]

\* The awaited channel.edit of one (role, channel) pair returns or raises
\* DiscordException.
pattern_resume(ok) ==
    /\ pc = "pattern"
    /\ UNCHANGED client
    /\ UNCHANGED <<exported, imported, rejected, confirm, clean>>
    /\ LET w == cur.write
           p == cur.pairs[cur.i]
           live1 == IF ok THEN [live EXCEPT ![w.channel] = w.overwrites] ELSE live
           results1 == Put(cur.results, PairKey(p.role, p.channel, channel_name),
                           Status(ok))
       IN  /\ live' = live1
           /\ attempts' = Append(attempts,
                                 [role |-> p.role, channel |-> p.channel, ok |-> ok])
           /\ IF cur.i < Len(cur.pairs)
              THEN /\ cur' = [cur EXCEPT
                                !.i = @ + 1,
                                !.results = results1,
                                !.write = BulkWrite(live1, cur.pairs[cur.i + 1].role,
                                                    cur.pairs[cur.i + 1].channel,
                                                    cur.permissions_dict)]
                   /\ UNCHANGED <<pc, last_operation, results, done, prev>>
              ELSE /\ last_operation' = PatternOperation(cur)
                   /\ results' = results1
                   /\ cur' = Idle
                   /\ pc' = "menu"
                   /\ Finishes("pattern")
    /\ UNCHANGED <<guild, channel_name, pending, console, nops, pre, touched,
                   patterns, unrecorded, orphan>>

(* --------------------------- copy_permissions -------------------------- *)

\* The call, up to `await target.edit(overwrites=source.overwrites)`.
copy_permissions(source, target) ==
    /\ pc = "menu"
    /\ UNCHANGED client
    /\ UNCHANGED <<exported, imported, rejected>>
    /\ confirm' = "yes"
    /\ clean' = AllAccepted
    /\ guild # "None"
    /\ nops < MaxOps
    /\ cur' = [type |-> "copy_permissions",
               source |-> source,
               target |-> target,
               original_overwrites |-> live[target],
               write |-> [channel |-> target, overwrites |-> live[source]]]
    /\ pc' = "copy"
    /\ pre' = live
    /\ touched' = {target}
    /\ attempts' = << >>
    /\ patterns' = << >>
    /\ results' = EmptyDict
    /\ Starts
    /\ UNCHANGED <<guild, channel_name, live, last_operation, pending, console,
                   unrecorded, orphan>>

\* The operation Copy Overwrites records after its write returned.
CopyOperation(c) ==
    [type |-> "copy_permissions",
     source |-> c.source,
     target |-> c.target,
     original_overwrites |-> c.original_overwrites]

\* What copy_permissions leaves in self.last_operation, given whether its
\* write returned (ok) or raised DiscordException.
CopyRecords(ok, c, operation) == IF ok THEN CopyOperation(c) ELSE operation

\* The awaited target.edit returns or raises DiscordException.
copy_resume(ok) ==
    /\ pc = "copy"
    /\ UNCHANGED client
    /\ UNCHANGED <<exported, imported, rejected, confirm, clean>>
    /\ live' = IF ok THEN [live EXCEPT ![cur.write.channel] = cur.write.overwrites]
                     ELSE live
    /\ attempts' = Append(attempts,
                          [role |-> 0, channel |-> cur.write.channel, ok |-> ok])
    /\ last_operation' = CopyRecords(ok, cur, last_operation)
    /\ cur' = Idle
    /\ pc' = "menu"
    /\ Finishes(IF ok THEN "copy_ok" ELSE "copy_failed")
    /\ UNCHANGED <<guild, channel_name, pending, results, console, nops, pre,
                   touched, patterns, unrecorded, orphan>>

(* ----------------------- rollback_last_operation ----------------------- *)

\* Variant: the check for a recorded operation is missing.
NoLastOperationUnchecked(operation) == FALSE

\* `if not self.last_operation`
NoLastOperation(operation) == operation.type = "none"

\* The channels rollback writes to, in order, by the branch of the
\* if/elif chain the operation's type selects; a type with no branch
\* ('import_config') writes to none.
RollbackTargets(operation) ==
    LET Captured(c) == c \in DOMAIN operation.original_overwrites
    IN  CASE operation.type = "bulk_role_to_channel" ->
                 SelectSeq(operation.channels, Captured)
          [] operation.type = "pattern_match" ->
                 SelectSeq(operation.matching_channels, Captured)
          [] operation.type = "copy_permissions" ->
                 <<operation.target>>
          [] OTHER -> << >>

\* The map rollback writes to a channel.
RollbackOverwrites(operation, channel) ==
    IF operation.type = "copy_permissions"
    THEN operation.original_overwrites
    ELSE operation.original_overwrites[channel]

RollbackWrite(operation, channel) ==
    [channel |-> channel, overwrites |-> RollbackOverwrites(operation, channel)]

\* Variant: the log is cleared also when a write raised.
AfterRollbackAlwaysClears(completed, operation) == NoOperation

\* Variant: the log is never cleared.
AfterRollbackNeverClears(completed, operation) == operation

\* self.last_operation when rollback returns: None after the try block ran
\* to its end, untouched when a write raised.
AfterRollback(completed, operation) ==
    IF completed THEN NoOperation ELSE operation

\* The diagnostic of a rollback that found no operation.
NothingToRollback == "No operation to rollback!"

\* The call, up to the first `await channel.edit` (or to a return).
rollback_last_operation ==
    /\ pc = "menu"
    /\ UNCHANGED client
    /\ UNCHANGED <<exported, imported, rejected>>
    /\ confirm' = "none"
    /\ clean' = AllAccepted
    /\ nops < MaxOps
    /\ IF NoLastOperation(last_operation)
       THEN /\ console' = NothingToRollback
            /\ Ends("rollback_nothing")
            /\ UNCHANGED <<last_operation, pc, cur>>
       ELSE LET targets == RollbackTargets(last_operation)
            IN  IF targets = << >>
                THEN /\ console' = "Rollback successful!"
                     /\ last_operation' = AfterRollback(TRUE, last_operation)
                     /\ Ends("rollback_ok")
                     /\ UNCHANGED <<pc, cur>>
                ELSE /\ cur' = [type |-> "rollback",
                                operation |-> last_operation,
                                targets |-> targets,
                                i |-> 1,
                                write |-> RollbackWrite(last_operation, targets[1])]
                     /\ pc' = "rollback"
                     /\ Starts
                     /\ UNCHANGED <<last_operation, console>>
    /\ attempts' = << >>
    /\ patterns' = << >>
    /\ results' = EmptyDict
    /\ UNCHANGED <<guild, channel_name, live, pending, pre, touched, unrecorded,
                   orphan>>

\* The awaited channel.edit of rollback returns or raises DiscordException.
rollback_resume(ok) ==
    /\ pc = "rollback"
    /\ UNCHANGED client
    /\ UNCHANGED <<exported, imported, rejected, confirm, clean>>
    /\ live' = IF ok THEN [live EXCEPT ![cur.write.channel] = cur.write.overwrites]
                     ELSE live
    /\ IF ok /\ cur.i < Len(cur.targets)
       THEN /\ cur' = [cur EXCEPT
                         !.i = @ + 1,
                         !.write = RollbackWrite(cur.operation, cur.targets[cur.i + 1])]
            /\ UNCHANGED <<pc, last_operation, console, done, prev>>
       ELSE /\ last_operation' = AfterRollback(ok, last_operation)
            /\ console' = IF ok THEN "Rollback successful!" ELSE "Rollback failed"
            /\ cur' = Idle
            /\ pc' = "menu"
            /\ Finishes(IF ok THEN "rollback_ok" ELSE "rollback_failed")
    /\ attempts' = Append(attempts,
                          [role |-> 0, channel |-> cur.write.channel, ok |-> ok])
    /\ UNCHANGED <<guild, channel_name, pending, results, nops, pre, touched,
                   patterns, unrecorded, orphan>>

(* ----------------------------- export_config --------------------------- *)

\* The file export_config may be pointed at.
ExportNames == {"export.json"}

DigitChar(d) ==
    CASE d = 0 -> "0" [] d = 1 -> "1" [] d = 2 -> "2" [] d = 3 -> "3"
      [] d = 4 -> "4" [] d = 5 -> "5" [] d = 6 -> "6" [] d = 7 -> "7"
      [] d = 8 -> "8" [] OTHER -> "9"

\* str(role.id)
RECURSIVE str(_)
str(n) == IF n < 10 THEN <<DigitChar(n)>> ELSE Append(str(n \div 10), DigitChar(n % 10))

\* overwrite_data of one record: the catalog names the object has as
\* attributes and whose value is not None, with the value.
OverwriteData(overwrite) ==
    [perm_name \in {n \in permissions : hasattr(n) /\ overwrite[n] # "Inherit"} |->
        overwrite[perm_name] = "Allow"]

\* channel_data['overwrites'] of one channel: the records with some explicit
\* flag, keyed by str(role.id).
ChannelData(channel, overwrites) ==
    LET kept == {role \in DOMAIN overwrites :
                    DOMAIN OverwriteData(overwrites[role]) # {}}
    IN  [id |-> channel,
         overwrites |->
             [k \in {str(role) : role \in kept} |->
                 OverwriteData(overwrites[CHOOSE role \in kept : str(role) = k])]]

\* The config export_config dumps: one entry per channel of the guild.
ExportedConfig(overwrites) ==
    [channels |->
        [i \in 1..Len(guild_channels) |->
            ChannelData(guild_channels[i], overwrites[guild_channels[i]])]]

\* The caller of export_config and import_config: the main menu, which
\* refuses both while no guild is selected, or a synchronous script that
\* calls the PermissionManager directly.
Callable ==
    /\ pc \in {"menu", "script"}
    /\ pc = "menu" => guild # "None"

\* Variant: the methods do not check for a guild.
NoGuildUnchecked == FALSE

\* `if not self.guild`
NoGuild == guild = "None"

\* export_config runs to its return in one step and issues no write.
export_config(filename) ==
    /\ Callable
    /\ UNCHANGED client
    /\ nops < MaxOps
    /\ IF NoGuild
       THEN /\ console' = "No guild selected!"
            /\ Ends("export_no_guild")
            /\ UNCHANGED exported
       ELSE /\ exported' = [error |-> "none", config |-> ExportedConfig(live)]
            /\ console' = "Configuration exported"
            /\ Ends("export")
    /\ confirm' = "none"
    /\ clean' = AllAccepted
    /\ attempts' = << >>
    /\ patterns' = << >>
    /\ results' = EmptyDict
    /\ UNCHANGED <<guild, channel_name, live, last_operation, pending, pc, cur,
                   pre, touched, unrecorded, orphan, imported, rejected>>

(* ----------------------------- import_config --------------------------- *)

\* The files import_config may be pointed at.
FileNames == {"missing.json", "invalid.json", "nochannels.json", "good.json",
              "stale.json", "broken.json", "badrole.json", "badflag.json",
              "export.json"}

\* open(filename) and json.load: the error raised, or the parsed config.
\* Role ids are JSON object keys, hence strings.
ReadFile(filename) ==
    CASE filename = "export.json" -> exported
      [] filename = "missing.json" -> [error |-> "FileNotFoundError"]
      [] filename = "invalid.json" -> [error |-> "JSONDecodeError"]
      [] filename = "nochannels.json" ->
            [error |-> "none", config |-> [guild_id |-> 1]]
      [] filename = "good.json" ->
            [error |-> "none",
             config |-> [channels |-> <<
                [id |-> 1,
                 overwrites |-> (<<"1", "0">> :> ("view_channel" :> FALSE))],
                [id |-> 2,
                 overwrites |-> (<<"2", "0">> :> (("send_messages" :> TRUE)
                                                   @@ ("use_voice_activation" :> FALSE)))
                                @@ (<<"9", "9">> :> ("view_channel" :> TRUE))] >>]]
      [] filename = "stale.json" ->
            [error |-> "none",
             config |-> [channels |-> <<
                [id |-> 3,
                 overwrites |-> (<<"1", "0">> :> ("view_channel" :> TRUE))],
                [id |-> 2, overwrites |-> EmptyDict] >>]]
      [] filename = "badrole.json" ->
            [error |-> "none",
             config |-> [channels |-> <<
                [id |-> 1,
                 overwrites |-> (<<"1", "x">> :> ("view_channel" :> TRUE))] >>]]
      [] filename = "badflag.json" ->
            [error |-> "none",
             config |-> [channels |-> <<
                [id |-> 1,
                 overwrites |-> (<<"1", "0">> :> ("__class__" :> TRUE))] >>]]
      [] OTHER ->
            [error |-> "none",
             config |-> [channels |-> <<
                [id |-> 1,
                 overwrites |-> (<<"2", "0">> :> ("send_messages" :> FALSE))],
                [id |-> 2] >>]]

IsDigit(ch) == ch \in {"0", "1", "2", "3", "4", "5", "6", "7", "8", "9"}

DigitValue(ch) ==
    CASE ch = "0" -> 0 [] ch = "1" -> 1 [] ch = "2" -> 2 [] ch = "3" -> 3
      [] ch = "4" -> 4 [] ch = "5" -> 5 [] ch = "6" -> 6 [] ch = "7" -> 7
      [] ch = "8" -> 8 [] OTHER -> 9

\* The digits of a numeral, without its sign.
Unsigned(s) == IF s # << >> /\ Head(s) \in {"+", "-"} THEN Tail(s) ELSE s

\* int(text) raises ValueError: the text is not an optional sign and digits.
IntRaises(s) ==
    Len(Unsigned(s)) = 0 \/ \E i \in 1..Len(Unsigned(s)) : ~IsDigit(Unsigned(s)[i])

\* The value of a non-empty sequence of digits.
RECURSIVE DigitsValue(_)
DigitsValue(s) ==
    IF Len(s) = 1
    THEN DigitValue(s[1])
    ELSE 10 * DigitsValue(SubSeq(s, 1, Len(s) - 1)) + DigitValue(s[Len(s)])

\* int(text)
int(s) == IF Head(s) = "-" THEN 0 - DigitsValue(Tail(s)) ELSE DigitsValue(Unsigned(s))

\* self.guild.get_channel(id) finds a channel
get_channel(id) == id \in Channels

\* self.guild.get_role(id) finds a role
get_role(id) == id \in Roles

\* One iteration of `for channel_data in config['channels']` raises: a
\* KeyError for 'id', or for a live channel a KeyError for 'overwrites', a
\* ValueError for a role id, or what setattr raises for a role that resolves.
EntryRaises(channel_data) ==
    IF "id" \notin DOMAIN channel_data
    THEN TRUE
    ELSE IF ~get_channel(channel_data.id)
    THEN FALSE
    ELSE IF "overwrites" \notin DOMAIN channel_data
    THEN TRUE
    ELSE \E k \in DOMAIN channel_data.overwrites :
            IF IntRaises(k)
            THEN TRUE
            ELSE get_role(int(k)) /\ MergeRaises(channel_data.overwrites[k])

\* new_overwrites of one iteration: one fresh record per role id that resolves.
EntryOverwrites(channel_data) ==
    LET ids == {k \in DOMAIN channel_data.overwrites : get_role(int(k))}
    IN  [r \in {int(k) : k \in ids} |->
            SetPermissions(PermissionOverwrite,
                           channel_data.overwrites[CHOOSE k \in ids : int(k) = r])]

\* asyncio.create_task raises RuntimeError: the caller is a script, and no
\* event loop is running.
CreateTaskRaises == pc = "script"

\* The loop over config['channels']: the writes handed to create_task, and
\* whether an iteration raised.
RECURSIVE ImportLoop(_, _)
ImportLoop(entries, tasks) ==
    IF entries = << >>
    THEN [tasks |-> tasks, raised |-> FALSE]
    ELSE IF EntryRaises(Head(entries))
    THEN [tasks |-> tasks, raised |-> TRUE]
    ELSE IF ~get_channel(Head(entries).id)
    THEN ImportLoop(Tail(entries), tasks)
    ELSE IF CreateTaskRaises
    THEN [tasks |-> tasks, raised |-> TRUE]
    ELSE ImportLoop(Tail(entries),
                    tasks \cup {[channel |-> Head(entries).id,
                                 overwrites |-> EntryOverwrites(Head(entries))]})

\* The body of the try block after json.load.
ImportRun(config) ==
    IF "channels" \in DOMAIN config
    THEN ImportLoop(config.channels, {})
    ELSE [tasks |-> {}, raised |-> TRUE]

\* The operation Import Config records after its loop.
ImportOperation(overwrites, filename) ==
    [type |-> "import_config",
     original_overwrites |-> [c \in Channels |-> overwrites[c]],
     imported_from |-> filename]

\* Variant: the catch-all `except Exception` clause is missing.
ImportHandlesNamedOnly(error) ==
    error \in {"FileNotFoundError", "JSONDecodeError"}

\* The except clauses of import_config: FileNotFoundError, JSONDecodeError,
\* and Exception for whatever else the try block raises.
ImportHandles(error) ==
    error \in {"FileNotFoundError", "JSONDecodeError", "Exception"}

\* The message import_config prints for an exception it handles.
ImportMessage(error) ==
    CASE error = "FileNotFoundError" -> "File not found!"
      [] error = "JSONDecodeError" -> "Invalid JSON!"
      [] OTHER -> "Import failed"

\* import_config is not a coroutine: it runs to its return in one step and
\* leaves its writes to the event loop.  An exception it does not handle
\* propagates to the caller, which does not handle it either.
import_config(filename) ==
    /\ Callable
    /\ UNCHANGED client
    /\ imported' = filename
    /\ rejected' = FALSE
    /\ confirm' = "none"
    /\ clean' = AllAccepted
    /\ UNCHANGED exported
    /\ nops < MaxOps
    /\ pre' = live
    /\ attempts' = << >>
    /\ LET file == ReadFile(filename)
           run == IF file.error = "none"
                  THEN ImportRun(file.config)
                  ELSE [tasks |-> {}, raised |-> TRUE]
           error == IF file.error # "none" THEN file.error
                    ELSE IF run.raised THEN "Exception" ELSE "none"
       IN  IF NoGuild
           THEN /\ console' = "No guild selected!"
                /\ touched' = {}
                /\ Ends("import_no_guild")
                /\ UNCHANGED <<last_operation, pending, unrecorded, pc>>
           ELSE /\ pending' = pending \cup run.tasks
                /\ touched' = {t.channel : t \in run.tasks}
                /\ last_operation' =
                       IF run.raised
                       THEN last_operation
                       ELSE ImportOperation(live, filename)
                /\ unrecorded' = IF run.raised
                                 THEN unrecorded \cup run.tasks
                                 ELSE unrecorded \ run.tasks
                /\ IF error = "none"
                   THEN /\ console' = "Configuration imported"
                        /\ Ends("import_ok")
                        /\ UNCHANGED pc
                   ELSE IF ImportHandles(error)
                   THEN /\ console' = ImportMessage(error)
                        /\ Ends("import_failed")
                        /\ UNCHANGED pc
                   ELSE /\ pc' = "raised"
                        /\ Ends("import_raised")
                        /\ UNCHANGED console
    /\ patterns' = << >>
    /\ results' = EmptyDict
    /\ UNCHANGED <<guild, channel_name, live, cur, orphan>>

\* A task created by import_config completes its channel.edit: the platform
\* accepts the write (ok) or rejects it, and nobody retrieves the outcome.
\* Tasks run only while the menu coroutine is suspended in an await.
channel_edit_task(w, ok) ==
    /\ pc \in {"bulk", "pattern", "copy", "rollback"}
    /\ UNCHANGED client
    /\ rejected' = (rejected \/ ~ok)
    /\ UNCHANGED <<exported, imported, confirm, clean>>
    /\ w \in pending
    /\ pending' = pending \ {w}
    /\ live' = IF ok THEN [live EXCEPT ![w.channel] = w.overwrites] ELSE live
    /\ unrecorded' = unrecorded \ {w}
    /\ orphan' = (orphan \/ (ok /\ w \in unrecorded))
    /\ UNCHANGED <<guild, channel_name, last_operation, pc, cur, results, console,
                   nops, done, prev, pre, touched, attempts, patterns>>

(* ---------------------- the editor, run on its own --------------------- *)

\* Every record a PermissionOverwrite can hold.
Records == [VALID_NAMES -> {"Allow", "Deny", "Inherit"}]

\* The requested maps: up to MaxFlags names, of the object or of the catalog,
\* each mapped to true or false.
RequestedMaps ==
    UNION {[K -> BOOLEAN] : K \in {X \in SUBSET (VALID_NAMES \cup permissions) :
                                      Cardinality(X) \in 1..MaxFlags}}

\* Two requested maps with disjoint keys, and the orders to apply them in:
\* one after the other, the other way round, or their union at once.
MergeInputs ==
    {[type |-> "merge", record |-> r, overwrite |-> r, m1 |-> m[1], m2 |-> m[2],
      todo |-> t, applied |-> << >>] :
        r \in Records,
        m \in {x \in RequestedMaps \X RequestedMaps : DOMAIN x[1] \cap DOMAIN x[2] = {}},
        t \in {<<1, 2>>, <<2, 1>>, <<0>>}}

\* The requested map number k of a run: m1, m2, or (0) their union.
Requested(c, k) == IF k = 1 THEN c.m1 ELSE IF k = 2 THEN c.m2 ELSE c.m1 @@ c.m2

MergeInit ==
    /\ Constructed
    /\ pc = "merge"
    /\ cur \in MergeInputs

\* One run of the loop over permissions_dict.items() on the record.
set_permissions ==
    /\ pc = "merge"
    /\ UNCHANGED client
    /\ cur.todo # << >>
    /\ cur' = [cur EXCEPT
                 !.overwrite = SetPermissions(@, Requested(cur, Head(cur.todo))),
                 !.applied = Append(@, Head(cur.todo)),
                 !.todo = Tail(@)]
    /\ UNCHANGED <<guild, channel_name, live, last_operation, pending, pc, results,
                   console, nops, done, prev, pre, touched, attempts, patterns,
                   unrecorded, orphan, exported, imported, rejected, confirm, clean>>

MergeNext == set_permissions

MergeSpec == MergeInit /\ [][MergeNext]_vars

(* -------------------- select_permissions_interactive ------------------- *)

\* self.permissions as the list get_all_permissions returns (three names, in
\* catalog order).
perms == <<"view_channel", "send_messages", "use_vad">>

\* A catalog name as the text the user types and the dict is keyed by.
Chars(name) ==
    CASE name = "view_channel" -> <<"v", "i", "e", "w", "_", "c", "h", "a", "n", "n", "e", "l">>
      [] name = "send_messages" -> <<"s", "e", "n", "d", "_", "m", "e", "s", "s", "a", "g", "e", "s">>
      [] OTHER -> <<"u", "s", "e", "_", "v", "a", "d">>

\* str.split(sep)
RECURSIVE Split(_, _)
Split(s, sep) ==
    IF \E i \in 1..Len(s) : s[i] = sep
    THEN LET i == CHOOSE k \in 1..Len(s) :
                     s[k] = sep /\ \A j \in 1..(k - 1) : s[j] # sep
         IN  <<SubSeq(s, 1, i - 1)>> \o Split(SubSeq(s, i + 1, Len(s)), sep)
    ELSE <<s>>

\* str.strip()
RECURSIVE Strip(_)
Strip(s) ==
    IF s # << >> /\ Head(s) = " "
    THEN Strip(Tail(s))
    ELSE IF s # << >> /\ s[Len(s)] = " "
    THEN Strip(SubSeq(s, 1, Len(s) - 1))
    ELSE s

\* str.replace(old, new) for single characters
Replace(s, old, new) == [i \in 1..Len(s) |-> IF s[i] = old THEN new ELSE s[i]]

\* What the user may type at "Your choice".
Choices ==
    { <<"a", "l", "l">>,
      <<"A", "L", "L">>,
      <<"n", "o", "n", "e">>,
      <<"c", "u", "s", "t", "o", "m">>,
      <<"2">>,
      <<"1", ",", "3">>,
      <<"0">>,
      <<"-", "1", ",", " ", "2">>,
      <<"4">>,
      <<"2", ",", "9">>,
      <<" ", "3", " ">>,
      <<"1", ",", "x">>,
      <<>>,
      <<"1", ",", ",", "2">>,
      <<"s", "e", "n", "d", "_", "m", "e", "s", "s", "a", "g", "e", "s">> }

\* What the user may type at "Enter permission names".
CustomNames ==
    { <<"s", "e", "n", "d", "_", "m", "e", "s", "s", "a", "g", "e", "s">>,
      <<"s", "e", "n", "d", " ", "m", "e", "s", "s", "a", "g", "e", "s", ",", " ", "u", "s", "e", "-", "v", "a", "d">>,
      <<"a", "d", "m", "i", "n", ",", " ", "v", "i", "e", "w", "_", "c", "h", "a", "n", "n", "e", "l">>,
      <<"_", "_", "c", "l", "a", "s", "s", "_", "_">>,
      <<"u", "s", "e", "_", "v", "o", "i", "c", "e", "_", "a", "c", "t", "i", "v", "a", "t", "i", "o", "n", ",", " ", "v", "i", "e", "w", "-", "c", "h", "a", "n", "n", "e", "l">>,
      <<" ">> }

\* perm.strip().replace(' ', '_').replace('-', '_')
Clean(perm) == Replace(Replace(Strip(perm), " ", "_"), "-", "_")

\* Variant: every cleaned name is taken, in the catalog or not.
InCatalogUnchecked(perm_clean) == TRUE

\* `perm_clean in perms`
InCatalog(perm_clean) == \E i \in 1..Len(perms) : Chars(perms[i]) = perm_clean

\* The custom branch: the cleaned names that are in the catalog, each with
\* the answer to its own Confirm.ask (answers are consumed in order).
RECURSIVE Custom(_, _, _)
Custom(selected_perms, answers, result) ==
    IF selected_perms = << >>
    THEN result
    ELSE IF InCatalog(Clean(Head(selected_perms)))
    THEN Custom(Tail(selected_perms), Tail(answers) \o <<Head(answers)>>,
                Put(result, Clean(Head(selected_perms)), Head(answers)))
    ELSE Custom(Tail(selected_perms), answers, result)

\* `0 <= i < len(perms)`
InRange(i) == 0 <= i /\ i < Len(perms)

\* The numeric branch: {} for a ValueError or when no index is in range.
Numeric(choice, allow) ==
    LET texts == Split(choice, ",")
    IN  IF \E k \in 1..Len(texts) : IntRaises(Strip(texts[k]))
        THEN EmptyDict
        ELSE LET indices == [k \in 1..Len(texts) |-> int(Strip(texts[k])) - 1]
                 selected_perms ==
                     {Chars(perms[indices[k] + 1]) :
                         k \in {x \in 1..Len(texts) : InRange(indices[x])}}
             IN  [perm \in selected_perms |-> allow]

\* The flag map the selection returns for what the user typed and answered.
SelectedPermissions(typed, perm_names, answers) ==
    LET choice == Lower(typed)
    IN  IF choice = <<"a", "l", "l">>
        THEN [perm \in {Chars(perms[i]) : i \in 1..Len(perms)} |-> answers[1]]
        ELSE IF choice = <<"n", "o", "n", "e">>
        THEN EmptyDict
        ELSE IF choice = <<"c", "u", "s", "t", "o", "m">>
        THEN Custom(Split(Lower(perm_names), ","), answers, EmptyDict)
        ELSE Numeric(choice, answers[1])

SelectInit ==
    /\ Constructed
    /\ pc = "select"
    /\ cur \in {[type |-> "select", choice |-> c, perm_names |-> n, answers |-> a] :
                   c \in Choices, n \in CustomNames, a \in BOOLEAN \X BOOLEAN}

\* The selection runs to its return.
select_permissions_interactive ==
    /\ pc = "select"
    /\ UNCHANGED client
    /\ pc' = "selected"
    /\ cur' = [type |-> "selected",
               choice |-> cur.choice,
               perm_names |-> cur.perm_names,
               permissions_dict |->
                   SelectedPermissions(cur.choice, cur.perm_names, cur.answers)]
    /\ UNCHANGED <<guild, channel_name, live, last_operation, pending, results,
                   console, nops, done, prev, pre, touched, attempts, patterns,
                   unrecorded, orphan, exported, imported, rejected, confirm, clean>>

\* The mode that asked for the flags goes on: with an empty map it prints
\* "No permissions selected!" and returns, otherwise it shows the preview.
permissions_selected ==
    /\ pc = "selected"
    /\ UNCHANGED client
    /\ IF cur.permissions_dict = EmptyDict
       THEN /\ console' = "No permissions selected!"
            /\ pc' = "returned"
       ELSE /\ pc' = "preview"
            /\ UNCHANGED console
    /\ UNCHANGED <<guild, channel_name, live, last_operation, pending, cur, results,
                   nops, done, prev, pre, touched, attempts, patterns, unrecorded,
                   orphan, exported, imported, rejected, confirm, clean>>

SelectNext == select_permissions_interactive \/ permissions_selected

SelectSpec == SelectInit /\ [][SelectNext]_vars

(* ------------------------------- the menu ------------------------------ *)

Next ==
    \/ select_server
    \/ on_ready
    \/ refuses
    \/ declines
    \/ \E role \in Roles, channels \in ChannelSelections,
          permissions_dict \in PermissionDicts :
          bulk_role_to_channel_permissions(role, channels, permissions_dict)
    \/ \E ok \in BOOLEAN : bulk_resume(ok)
    \/ \E role_pattern \in RolePatterns, channel_pattern \in ChannelPatterns,
          permissions_dict \in PermissionDicts :
          pattern_match_permissions(role_pattern, channel_pattern, permissions_dict)
    \/ \E ok \in BOOLEAN : pattern_resume(ok)
    \/ \E source \in Channels : \E target \in Channels \ {source} :
          copy_permissions(source, target)
    \/ \E ok \in BOOLEAN : copy_resume(ok)
    \/ rollback_last_operation
    \/ \E ok \in BOOLEAN : rollback_resume(ok)
    \/ \E filename \in ExportNames : export_config(filename)
    \/ \E filename \in FileNames : import_config(filename)
    \/ \E w \in pending, ok \in BOOLEAN : channel_edit_task(w, ok)

Spec == Init /\ [][Next]_vars

(* ------------------- the PermissionManager called directly ------------- *)

\* pm.guild = mock_guild: a script sets the guild itself.
set_guild ==
    /\ pc = "script"
    /\ UNCHANGED client
    /\ guild = "None"
    /\ guild' = "guild"
    /\ UNCHANGED <<channel_name, live, last_operation, pending, pc, cur, results,
                   console, nops, done, prev, pre, touched, attempts, patterns,
                   unrecorded, orphan, exported, imported, rejected, confirm, clean>>

\* The PermissionManager behind the menu, or in the hands of a script.
CallersInit ==
    /\ Constructed
    /\ pc \in {"menu", "script"}
    /\ cur = Idle

CallersNext == Next \/ set_guild

CallersSpec == CallersInit /\ [][CallersNext]_vars

(* ------------------------------ properties ----------------------------- *)

\* The step in which a flow returns to the menu, ending as `how`.
Ended(how) ==
    /\ pc' = "menu"
    /\ done' = how
    /\ (pc # "menu" \/ nops' = nops + 1)

\* The step in which the menu calls rollback_last_operation.
RollbackCalled ==
    /\ pc = "menu"
    /\ nops' = nops + 1
    /\ \/ pc' = "rollback"
       \/ pc' = "menu" /\ done' \in {"rollback_ok", "rollback_nothing"}

\* The step in which the menu calls pattern_match_permissions.
PatternCalled ==
    /\ pc = "menu"
    /\ nops' = nops + 1
    /\ patterns' # << >>
    /\ confirm' = "yes"

\* The step issues no write and leaves every channel map and the log alone.
NoEffect ==
    /\ live' = live
    /\ last_operation' = last_operation
    /\ pending' = pending
    /\ pc' = "menu"
    /\ cur' = Idle

\* Some awaited write of the last flow was rejected / accepted.
SomeRejected == \E i \in 1..Len(attempts) : ~attempts[i].ok

SomeAccepted == \E i \in 1..Len(attempts) : attempts[i].ok

\* C1: after a single Role->Channels, Pattern Match or Copy Overwrites
\* operation (its writes accepted or rejected), a rollback whose writes are
\* all accepted leaves every channel the operation targeted with the map it
\* had immediately before the operation started.
C1_RollbackRestoresBatch ==
    [][ (Ended("rollback_ok")
           /\ done \in {"bulk", "pattern", "copy_ok", "copy_failed"})
        => \A c \in touched : live'[c] = pre[c] ]_vars

\* C2: after an Import Config, a rollback that reports success has restored
\* every live channel's map to the value captured in the import's pre-image.
C2_RollbackRestoresImport ==
    [][ (Ended("rollback_ok") /\ last_operation.type = "import_config")
        => \A c \in Channels : live'[c] = last_operation.original_overwrites[c] ]_vars

\* C3: a rollback in which a write is rejected reports failure and leaves the
\* log holding the same operation with its complete pre-image; the log is
\* cleared only by a rollback that ran to its end with every write accepted.
C3_FailedRollbackKeepsLog ==
    [][ /\ (pc = "rollback" /\ pc' = "menu" /\ (\E i \in 1..Len(attempts') : ~attempts'[i].ok))
           => /\ Ended("rollback_failed")
              /\ console' = "Rollback failed"
              /\ last_operation' = cur.operation
              /\ last_operation' # NoOperation
              /\ \A i \in 1..Len(cur.targets) :
                    RollbackOverwrites(last_operation', cur.targets[i])
                        = RollbackOverwrites(cur.operation, cur.targets[i])
        /\ (last_operation # NoOperation /\ last_operation' = NoOperation)
           => /\ Ended("rollback_ok")
              /\ \A i \in 1..Len(attempts') : attempts'[i].ok ]_vars

C3_Witness ==
    /\ pc = "menu"
    /\ done = "rollback_failed"
    /\ SomeRejected
    /\ last_operation # NoOperation

C5_NothingToRollback ==
    [][ (RollbackCalled /\ last_operation = NoOperation)
        => /\ NoEffect
           /\ last_operation' = NoOperation
           /\ console' = "No operation to rollback!"
           /\ done' = "rollback_nothing" ]_vars

C5_Witness ==
    /\ pc = "menu"
    /\ done = "rollback_nothing"
    /\ console = "No operation to rollback!"
    /\ last_operation = NoOperation

\* C6: once a write flow that issued at least one write is over, the log
\* holds that flow's operation and pre-image (replacing any earlier one),
\* also when every write of the flow was rejected.
C6_LogDescribesLastBatch ==
    pc = "menu" =>
      /\ (done = "bulk" /\ attempts # << >>)
         => /\ last_operation.type = "bulk_role_to_channel"
            /\ last_operation.original_overwrites = [c \in touched |-> pre[c]]
      /\ (done = "pattern" /\ attempts # << >>)
         => /\ last_operation.type = "pattern_match"
            /\ last_operation.original_overwrites = [c \in touched |-> pre[c]]
      /\ (done \in {"copy_ok", "copy_failed"} /\ attempts # << >>)
         => /\ last_operation.type = "copy_permissions"
            /\ \A c \in touched : last_operation.original_overwrites = pre[c]
      /\ (done \in {"import_ok", "import_failed"} /\ touched # {})
         => /\ last_operation.type = "import_config"
            /\ last_operation.original_overwrites = pre

\* The result-map key of an awaited write of the last batch flow.
AttemptKey(a) ==
    IF done = "bulk"
    THEN channel_name[a.channel]
    ELSE PairKey(a.role, a.channel, channel_name)

\* The number of targets of the last batch flow.
TargetCount ==
    IF done = "bulk"
    THEN Len(last_operation.channels)
    ELSE Len(last_operation.matching_roles) * Len(last_operation.matching_channels)

\* C7: Role->Channels and Pattern Match attempt the write for every target,
\* whatever was rejected before, and the returned result map records a
\* failure status for each rejected target and a success status for each
\* accepted one.
C7_EveryTargetAttemptedAndReported ==
    (pc = "menu" /\ done \in {"bulk", "pattern"}) =>
      /\ Len(attempts) = TargetCount
      /\ \A i \in 1..Len(attempts) :
            /\ AttemptKey(attempts[i]) \in DOMAIN results
            /\ results[AttemptKey(attempts[i])] = Status(attempts[i].ok)

\* C8: after a Role->Channels batch with rejected writes, the recorded
\* operation's pre-image has an entry for every channel of the target list,
\* the rejected ones included, equal to the channel's map before the batch.
C8_PartialFailureKeepsAllPreImages ==
    (pc = "menu" /\ done = "bulk" /\ SomeRejected) =>
      /\ last_operation.type = "bulk_role_to_channel"
      /\ Range(last_operation.channels) = touched
      /\ \A i \in 1..Len(attempts) :
            attempts[i].channel \in DOMAIN last_operation.original_overwrites
      /\ \A c \in touched :
            /\ c \in DOMAIN last_operation.original_overwrites
            /\ last_operation.original_overwrites[c] = pre[c]

C8_Witness ==
    /\ pc = "menu"
    /\ done = "bulk"
    /\ SomeRejected
    /\ SomeAccepted
    /\ \E c \in touched : live[c] # pre[c]

\* C9: no write flow ends with one of its writes applied while the log does
\* not hold that flow's operation with the pre-image of the written channel.
C9_AppliedWriteIsLogged ==
    /\ ~orphan
    /\ (pc = "menu" /\ done \in {"bulk", "pattern"}) =>
          \A i \in 1..Len(attempts) :
             attempts[i].ok =>
                /\ last_operation.type \in {"bulk_role_to_channel", "pattern_match"}
                /\ attempts[i].channel \in DOMAIN last_operation.original_overwrites
                /\ last_operation.original_overwrites[attempts[i].channel]
                      = pre[attempts[i].channel]
    /\ (pc = "menu" /\ done \in {"copy_ok", "copy_failed"} /\ SomeAccepted) =>
          /\ last_operation.type = "copy_permissions"
          /\ \A c \in touched : last_operation.original_overwrites = pre[c]

\* C10: a Pattern Match whose role substring matches no role, or whose
\* channel substring matches no channel (case-insensitive containment),
\* issues no write, returns an empty result map and leaves every channel map
\* and the log as they were.
C10_PatternWithoutMatchHasNoEffect ==
    [][ (PatternCalled
           /\ \/ \A r \in Roles : ~IsIn(Lower(patterns'[1]), Lower(RoleName(r)))
              \/ \A c \in Channels : ~IsIn(Lower(patterns'[2]), Lower(channel_name[c])))
        => /\ NoEffect
           /\ results' = EmptyDict
           /\ done' \in {"pattern_no_roles", "pattern_no_channels"} ]_vars

C10_Witness ==
    /\ pc = "menu"
    /\ done \in {"pattern_no_roles", "pattern_no_channels"}
    /\ patterns # << >>
    /\ results = EmptyDict
    /\ last_operation # NoOperation

\* The last call was a Pattern Match whose role substring matches no role.
AfterRoleMiss ==
    /\ pc = "menu"
    /\ patterns # << >>
    /\ \A r \in Roles : ~IsIn(Lower(patterns[1]), Lower(RoleName(r)))

\* C11 as stated: from any reachable state, a rollback issued immediately
\* after a Pattern Match that aborted because its role substring matches no
\* role reports "nothing to rollback" and issues no write.
C11_RollbackAfterRoleMissFindsNothing ==
    [][ (RollbackCalled /\ AfterRoleMiss)
        => /\ NoEffect
           /\ console' = "No operation to rollback!"
           /\ done' = "rollback_nothing" ]_vars

\* C11 (amended): a Pattern Match that aborts because its role substring
\* matches no role captures no pre-image and leaves the log as it was; a
\* rollback issued immediately after it reports "nothing to rollback" and
\* issues no write when the log was empty before the Pattern Match.
C11_RoleMissLeavesLog ==
    [][ /\ (PatternCalled
              /\ \A r \in Roles : ~IsIn(Lower(patterns'[1]), Lower(RoleName(r))))
           => /\ last_operation' = last_operation
              /\ pending' = pending
              /\ pc' = "menu"
        /\ (RollbackCalled /\ AfterRoleMiss /\ last_operation = NoOperation)
           => /\ NoEffect
              /\ console' = "No operation to rollback!"
              /\ done' = "rollback_nothing" ]_vars

C11_Witness ==
    /\ pc = "menu"
    /\ done = "rollback_nothing"
    /\ prev = "pattern_no_roles"
    /\ console = "No operation to rollback!"
    /\ live = pre

\* The writes in flight: the one the menu coroutine awaits, and the ones left
\* to the event loop.
InFlight == Cardinality(pending) + (IF pc = "menu" THEN 0 ELSE 1)

\* C12: in every write flow at most one write is in flight at any time, and
\* every write a flow issued has been accepted or rejected by the platform
\* before the flow reports its outcome (returns to the menu).
C12_WritesAwaitedOneAtATime ==
    /\ InFlight <= 1
    /\ pc = "menu" => pending = {}

\* C13: writes of two operations never interleave: no flow started from the
\* menu issues a write, or replaces or clears the log, while a write issued
\* by an earlier flow is still in flight.
C13_NoInterleaving ==
    [][ (pc = "menu" /\ pending # {})
        => /\ pc' = "menu"
           /\ pending' = pending
           /\ last_operation' = last_operation ]_vars

\* The file holds a config with a channel list whose entries all have an id
\* and overwrites keyed by numeric role ids.
WellFormed(file) ==
    /\ file.error = "none"
    /\ "channels" \in DOMAIN file.config
    /\ \A i \in 1..Len(file.config.channels) :
          LET channel_data == file.config.channels[i]
          IN  /\ "id" \in DOMAIN channel_data
              /\ "overwrites" \in DOMAIN channel_data
              /\ \A k \in DOMAIN channel_data.overwrites :
                    /\ Len(k) > 0
                    /\ \A j \in 1..Len(k) : IsDigit(k[j])

\* The menu is back from an import_config call.
AfterImport ==
    /\ pc = "menu"
    /\ done \in {"import_ok", "import_failed"}
    /\ imported # ""

\* C14: if the config file is unreadable or malformed (missing, invalid JSON,
\* no channel list, an entry without a required field, a non-numeric role
\* id), Import Config issues no write to any channel.
C14_MalformedFileIssuesNoWrite ==
    (AfterImport /\ ~WellFormed(ReadFile(imported))) => touched = {}

\* The entry of a config for a channel, and whether there is one.
HasEntry(config, c) ==
    \E i \in 1..Len(config.channels) : config.channels[i].id = c

EntryOf(config, c) ==
    config.channels[CHOOSE i \in 1..Len(config.channels) : config.channels[i].id = c]

\* The map an entry describes: one record for each role id that resolves to
\* a live role, carrying the entry's catalog flags.
Reconstructed(channel_data) ==
    [r \in {x \in Roles : str(x) \in DOMAIN channel_data.overwrites} |->
        LET flags == channel_data.overwrites[str(r)]
        IN  [n \in VALID_NAMES |->
                IF n \in (DOMAIN flags) \cap permissions
                THEN (IF flags[n] THEN "Allow" ELSE "Deny")
                ELSE "Inherit"]]

\* C15: once the writes of an Import Config have all been accepted, every live
\* channel with an entry in the config holds exactly the map reconstructed
\* from the entry, and every live channel without an entry is unchanged
\* (entries for channels that are not live are skipped without error).
C15_ImportAppliesConfig ==
    [][ (/\ pending # {}
         /\ pending' = {}
         /\ ~rejected'
         /\ last_operation.type = "import_config")
        => LET config == ReadFile(last_operation.imported_from).config
           IN  \A c \in Channels :
                  live'[c] = IF HasEntry(config, c)
                             THEN Reconstructed(EntryOf(config, c))
                             ELSE last_operation.original_overwrites[c] ]_vars

\* C16: a Copy Overwrites whose write is accepted leaves the destination's map
\* equal to the source's map, leaves the source and every other channel
\* unchanged, and records the destination's prior map as the pre-image.
C16_CopyReplacesTargetOnly ==
    [][ Ended("copy_ok")
        => /\ live'[cur.target] = live'[cur.source]
           /\ \A c \in Channels \ {cur.target} : live'[c] = pre[c]
           /\ last_operation'.type = "copy_permissions"
           /\ last_operation'.original_overwrites = pre[cur.target] ]_vars

\* The step in which Role->Channels or Pattern Match issues a write.
WriteIssued == pc' \in {"bulk", "pattern"} /\ cur' # cur

\* The role of the write a batch flow is awaiting.
TargetRole(c) ==
    IF c.type = "bulk_role_to_channel" THEN c.role ELSE c.pairs[c.i].role

\* C17: permission merge: the record written for the role has Allow for each
\* requested flag mapped to true, Deny for each requested flag mapped to
\* false, and for every other flag the state it had in the current record
\* (all Inherit when the role has no record).
C17_MergeSetsRequestedFlags ==
    [][ WriteIssued
        => LET role == TargetRole(cur')
               w == cur'.write
               requested == cur'.permissions_dict
               current == IF role \in DOMAIN live'[w.channel]
                          THEN live'[w.channel][role]
                          ELSE [n \in VALID_NAMES |-> "Inherit"]
               record == w.overwrites[role]
           IN  /\ \A n \in DOMAIN requested :
                     /\ n \in DOMAIN record
                     /\ record[n] = (IF requested[n] THEN "Allow" ELSE "Deny")
               /\ \A n \in (DOMAIN record) \ (DOMAIN requested) :
                     record[n] = current[n] ]_vars

\* C18: a flag name that is not in the permission catalog is never stored in
\* the resulting record, and its presence never makes the merge raise or
\* abort the batch: an import of a well-formed file ends normally, and every
\* flag a written record sets is a catalog name of the entry's flag map.
C18_OnlyCatalogFlagsStored ==
    (AfterImport /\ WellFormed(ReadFile(imported)))
    => /\ done = "import_ok"
       /\ LET config == ReadFile(imported).config
              run == ImportRun(config)
          IN  /\ run.tasks \subseteq pending
              /\ \A w \in run.tasks :
                    \A r \in DOMAIN w.overwrites :
                       \A n \in VALID_NAMES :
                          w.overwrites[r][n] # "Inherit"
                          => n \in (DOMAIN EntryOf(config, w.channel).overwrites[str(r)])
                                     \cap permissions

\* The step in which an awaited write of Role->Channels or Pattern Match is
\* accepted.
BatchWriteAccepted ==
    /\ pc \in {"bulk", "pattern"}
    /\ Len(attempts') = Len(attempts) + 1
    /\ attempts'[Len(attempts')].ok

\* C19: an accepted Role->Channels or Pattern Match write to a channel changes
\* only the target role's record in that channel's map: the records of every
\* other role in the channel are unchanged, and the maps of channels outside
\* the target set are unchanged.
C19_WriteChangesTargetRecordOnly ==
    [][ /\ BatchWriteAccepted
           => LET a == attempts'[Len(attempts')]
              IN  /\ \A r \in Roles \ {a.role} :
                        /\ (r \in DOMAIN live'[a.channel]) = (r \in DOMAIN live[a.channel])
                        /\ r \in DOMAIN live[a.channel]
                           => live'[a.channel][r] = live[a.channel][r]
                  /\ \A c \in Channels \ {a.channel} : live'[c] = live[c]
        /\ (Ended("bulk") \/ Ended("pattern"))
           => \A c \in Channels \ touched : live'[c] = pre[c] ]_vars

\* The step in which the file just exported is imported.
RoundTrip ==
    /\ pc = "menu"
    /\ done = "export"
    /\ nops' = nops + 1
    /\ imported' = "export.json"
    /\ done' \in {"import_ok", "import_failed"}

\* The records of a map that set some flag.
Explicit(overwrites) ==
    [r \in {x \in DOMAIN overwrites :
               \E n \in VALID_NAMES : overwrites[x][n] # "Inherit"} |-> overwrites[r]]

\* C20: round trip: exporting and then importing the exported file into the
\* unchanged guild writes back to every channel a map equal to the one it had
\* before the export (a record that sets no flag counting as no record); a
\* flag that was Inherit is still Inherit.
C20_RoundTrip ==
    [][ RoundTrip
        => LET run == ImportRun(exported.config)
           IN  /\ done' = "import_ok"
               /\ run.tasks \subseteq pending'
               /\ \A c \in Channels : \E w \in run.tasks : w.channel = c
               /\ \A w \in run.tasks :
                     /\ w.overwrites = Explicit(live[w.channel])
                     /\ \A r \in DOMAIN w.overwrites :
                           \A n \in VALID_NAMES :
                              live[w.channel][r][n] = "Inherit"
                              => w.overwrites[r][n] = "Inherit" ]_vars

\* The flags a record sets explicitly, as the file writes them: true for
\* Allow, false for Deny.
ExplicitFlags(overwrite) ==
    [n \in {x \in VALID_NAMES : overwrite[x] # "Inherit"} |-> overwrite[n] = "Allow"]

\* C21: export writes exactly one channel entry per live channel (also for a
\* channel with no overwrites); an entry's overwrites object contains a role
\* id if and only if that role's record sets some flag explicitly, and lists
\* for such a role exactly the flags that are Allow (true) or Deny (false),
\* never a flag that is Inherit.
C21_ExportListsExplicitFlags ==
    [][ Ended("export")
        => /\ exported'.error = "none"
           /\ LET entries == exported'.config.channels
              IN  /\ \A c \in Channels :
                        Cardinality({i \in 1..Len(entries) : entries[i].id = c}) = 1
                  /\ \A i \in 1..Len(entries) :
                        /\ entries[i].id \in Channels
                        /\ LET overwrites == live[entries[i].id]
                               listed == entries[i].overwrites
                           IN  /\ DOMAIN listed =
                                     {str(r) : r \in {x \in DOMAIN overwrites :
                                         DOMAIN ExplicitFlags(overwrites[x]) # {}}}
                               /\ \A r \in DOMAIN overwrites :
                                     str(r) \in DOMAIN listed
                                     => listed[str(r)] = ExplicitFlags(overwrites[r]) ]_vars

\* C22: order-independence of the merge: for every record and requested maps
\* m1, m2 with disjoint flag keys, applying m1 then m2 yields the same record
\* as applying m2 then m1, and the same as applying their union once.
C22_MergeOrderIndependent ==
    (pc = "merge" /\ cur.todo = << >>)
    => cur.overwrite = SetPermissions(cur.record, cur.m1 @@ cur.m2)

C22_Witness ==
    /\ pc = "merge"
    /\ cur.applied = <<2, 1>>
    /\ cur.overwrite # SetPermissions(cur.record, cur.m1)
    /\ cur.overwrite # SetPermissions(cur.record, cur.m2)
    /\ \E n \in DOMAIN cur.m1 : ~hasattr(n)

\* The step in which a Role->Channels run ends that repeats the run before it
\* (same role, channels and requested map), every write of both accepted.
SecondRunEnds ==
    /\ Ended("bulk")
    /\ done = "bulk"
    /\ clean
    /\ \A i \in 1..Len(attempts') : attempts'[i].ok
    /\ last_operation.type = "bulk_role_to_channel"
    /\ last_operation.role = cur.role
    /\ last_operation.channels = cur.channels
    /\ last_operation.new_permissions = cur.permissions_dict

\* C23: idempotence: running Role->Channels twice in succession with the same
\* role, channels and requested flag map (all writes accepted) leaves each
\* channel with the same record for that role as running it once.
C23_SecondRunChangesNothing ==
    [][ SecondRunEnds
        => \A c \in touched :
              /\ cur.role \in DOMAIN pre[c]
              /\ cur.role \in DOMAIN live'[c]
              /\ live'[c][cur.role] = pre[c][cur.role] ]_vars

\* C24: every write flow reachable from the menus (Role->Channels, Pattern
\* Match, Copy Overwrites, Import Config) issues its first write only after
\* the user has answered a confirmation prompt affirmatively; without an
\* affirmative answer the flow issues no write and leaves the log unchanged.
C24_WritesNeedConfirmation ==
    [][ (pc = "menu" /\ ~RollbackCalled /\ confirm' # "yes")
        => /\ pc' = "menu"
           /\ pending' = pending
           /\ live' = live
           /\ last_operation' = last_operation ]_vars

\* The step in which import_config is called and returns or raises.
ImportCalled ==
    /\ pc \in {"menu", "script"}
    /\ pc' \in {pc, "raised"}
    /\ nops' = nops + 1
    /\ done' \in {"import_ok", "import_failed", "import_no_guild", "import_raised"}

\* C25: import_config never propagates an exception to its caller: on every
\* failure (no guild selected, file missing, invalid JSON, a malformed entry,
\* a write that cannot be scheduled) it returns normally after reporting the
\* failure, and the log is left exactly as it was before the call.
C25_ImportFailureHandled ==
    [][ ImportCalled
        => /\ pc' = pc
           /\ done' # "import_raised"
           /\ done' # "import_ok"
              => /\ last_operation' = last_operation
                 /\ console' \in {"No guild selected!", "File not found!",
                                  "Invalid JSON!", "Import failed"} ]_vars

\* A script's import of a well-formed file fails at create_task, after the
\* menu-less caller had selected a guild.
C25_Witness ==
    /\ pc = "script"
    /\ guild # "None"
    /\ done = "import_failed"
    /\ console = "Import failed"
    /\ imported = "good.json"
    /\ prev = "import_no_guild"
    /\ pending = {}

\* The step in which an awaited write of Role->Channels or Pattern Match is
\* rejected.
BatchWriteRejected ==
    /\ pc \in {"bulk", "pattern"}
    /\ Len(attempts') = Len(attempts) + 1
    /\ ~attempts'[Len(attempts')].ok

\* C26: the merge works on a fresh value: when the platform rejects a
\* Role->Channels or Pattern Match write, the channel's live map is exactly
\* what it was before the attempt, and the pre-image captured when the batch
\* started is not altered by the merge or write of any target.
C26_RejectedWriteLeavesMap ==
    [][ /\ BatchWriteRejected
           => live'[cur.write.channel] = cur.write.copied
        /\ (pc \in {"bulk", "pattern"} /\ pc' = pc)
           => cur'.original_overwrites = cur.original_overwrites
        /\ (pc \in {"bulk", "pattern"} /\ pc' = "menu")
           => /\ last_operation'.original_overwrites = cur.original_overwrites
              /\ cur.original_overwrites = [c \in touched |-> pre[c]] ]_vars

\* The step in which a Pattern Match over several matching roles ends, every
\* write accepted.
SeveralRolesDone ==
    /\ Ended("pattern")
    /\ pc = "pattern"
    /\ Len(cur.matching_roles) > 1
    /\ \A i \in 1..Len(attempts') : attempts'[i].ok

\* C27: in a Pattern Match with several matching roles and a matching
\* channel each pair's write is computed from the channel's map as the
\* previous accepted write left it: after all writes are accepted the
\* channel's map carries the requested flags for every matched role, while
\* the pre-image for the channel is its map from before the first pair's write.
C27_PairsAccumulate ==
    [][ /\ (pc = "pattern" /\ pc' = "pattern" /\ cur'.i = cur.i + 1)
           => cur'.write.copied = live'[cur'.write.channel]
        /\ SeveralRolesDone
           => \A c \in Range(cur.matching_channels) :
                 /\ last_operation'.original_overwrites[c] = pre[c]
                 /\ \A r \in Range(cur.matching_roles) :
                       /\ r \in DOMAIN live'[c]
                       /\ \A n \in DOMAIN cur.permissions_dict :
                             /\ n \in DOMAIN live'[c][r]
                             /\ live'[c][r][n] =
                                   (IF cur.permissions_dict[n] THEN "Allow" ELSE "Deny")
      ]_vars

\* The channels an operation holds a pre-image for.
PreImageChannels(operation) ==
    IF operation.type = "copy_permissions"
    THEN {operation.target}
    ELSE DOMAIN operation.original_overwrites

\* C28: a failed rollback can be retried to completion: after a rollback
\* aborts at a rejected write, the channels restored before the failure keep
\* their pre-image maps, and a subsequent rollback in which every write is
\* accepted restores every channel of the pre-image to its pre-operation map
\* and then clears the log.
C28_FailedRollbackCanBeRetried ==
    [][ /\ (Ended("rollback_failed") /\ pc = "rollback")
           => \A k \in 1..(cur.i - 1) :
                 live'[cur.targets[k]] = RollbackOverwrites(cur.operation, cur.targets[k])
        /\ (Ended("rollback_ok") /\ done = "rollback_failed")
           => /\ \A c \in PreImageChannels(last_operation) :
                    live'[c] = RollbackOverwrites(last_operation, c)
              /\ last_operation' = NoOperation ]_vars

\* The text of some catalog name.
CatalogText(k) == \E name \in permissions : Chars(name) = k

\* C29: every key of the flag map the interactive selection returns is a
\* member of the permission catalog, whatever the user types ('all', 'none',
\* 'custom' with arbitrary names, a number list with out-of-range, zero or
\* negative numbers, unparsable text); unknown names and out-of-range numbers
\* are dropped, and only a non-empty map of catalog flags goes on to a write
\* flow's preview.
C29_SelectedFlagsInCatalog ==
    /\ pc \in {"selected", "preview", "returned"}
       => \A k \in DOMAIN cur.permissions_dict : CatalogText(k)
    /\ pc = "preview" => cur.permissions_dict # EmptyDict
    /\ pc = "returned" => cur.permissions_dict = EmptyDict

\* A custom selection with an unknown name beside a catalog name, and a
\* number list with a number out of range beside one in range, reach the
\* preview.
C29_Witness ==
    /\ pc = "preview"
    /\ \/ /\ Lower(cur.choice) = <<"c", "u", "s", "t", "o", "m">>
          /\ \E i \in 1..Len(Split(Lower(cur.perm_names), ",")) :
                ~CatalogText(Clean(Split(Lower(cur.perm_names), ",")[i]))
       \/ /\ cur.choice = <<"2", ",", "9">>
          /\ DOMAIN cur.permissions_dict = {Chars("send_messages")}

\* C30: while no guild is selected, no sequence of main-menu choices results
\* in a channel write, an exported file or a change of the log: Manage
\* Permissions, Export Config and Import Config are refused by the menu, and
\* export_config and import_config called with no guild return without any
\* effect.
C30_NoGuildNoEffect ==
    [][ guild = "None"
        => /\ live' = live
           /\ pending' = pending
           /\ exported' = exported
           /\ last_operation' = last_operation
           /\ last_operation = NoOperation
           /\ pc' \notin {"bulk", "pattern", "copy", "rollback"}
           /\ cur' = Idle
           /\ (pc = "menu" /\ pc' = "menu" /\ guild' = "None" /\ client' = client
                 /\ ~RollbackCalled)
              => console' = "Please select a server first!"
           /\ (pc = "script" /\ guild' = "None")
              => /\ console' = "No guild selected!"
                 /\ done' \in {"export_no_guild", "import_no_guild"} ]_vars

\* The menu has refused a choice, and a script's calls of export_config and
\* import_config have returned, all with no guild selected.
C30_Witness ==
    /\ guild = "None"
    /\ \/ pc = "menu" /\ console = "Please select a server first!"
                      /\ done = "rollback_nothing"
       \/ pc = "script" /\ console = "No guild selected!"
                        /\ done = "import_no_guild" /\ prev = "export_no_guild"
    /\ exported = [error |-> "FileNotFoundError"]
    /\ last_operation = NoOperation

\* The step in which the menu calls select_server.
SelectServerCalled ==
    /\ pc = "menu"
    /\ console' \in {"Selected server", "Error"}
    /\ \/ guild' # guild
       \/ pc' = "raised"

\* C31 as stated: in every interleaving of the menu with the client start-up,
\* select_server executes only after on_ready has stored the client in the
\* PermissionManager, so that no menu action dereferences a client that is
\* still None.
C31_SelectServerAfterOnReady ==
    [][ SelectServerCalled => (client # "None" /\ pc' # "raised") ]_vars

\* C32 as stated: the result map Role->Channels or Pattern Match returns has
\* exactly one status entry per target (per channel, per (role, channel)
\* pair), so the number of entries equals the number of writes attempted,
\* also when targeted channels share a name.
C32_OneEntryPerTarget ==
    (pc = "menu" /\ done \in {"bulk", "pattern"}) =>
      /\ Len(attempts) = TargetCount
      /\ Cardinality(DOMAIN results) = Len(attempts)

====
